---- MODULE Spec2Model ----
(***************************************************************************)
(* A model of the six MapReduce sales analyses of the BigData repository:  *)
(*   monthly   JavaScript_MapReduce/monthly_sales_trends.js                *)
(*   top       unnamed/part_000  (top selling products)                    *)
(*   type      unnamed/part_001  (most popular product type)               *)
(*   supplier  unnamed/part_002  (total sales by supplier)                 *)
(*   split     unnamed/part_003  (retail vs warehouse split)               *)
(*   low       low_selling_products.js                                     *)
(* Every script is the same linear main(): read and parse dataset.csv,     *)
(* map() each record, reduce(), rank, print.  One behaviour of the model   *)
(* is one run of one script on one dataset.                                *)
(*                                                                         *)
(* Text is a sequence of one-character strings.  Numbers are integers: the *)
(* sales fields of the modelled datasets are integer numerals (no '.', no  *)
(* exponent, no "Infinity"), so every sum is exact.  A quotient is kept as *)
(* the pair [num, den]; toFixed() rounds the exact quotient.               *)
(***************************************************************************)
EXTENDS Integers, Sequences, FiniteSets

(***************************************************************************)
(* Bounds of the model.                                                    *)
(***************************************************************************)
MaxRecords == 3     \* rows of dataset.csv after the header
MaxTopN == 2        \* the small n tried for getTopProducts / getTopSuppliers

(***************************************************************************)
(* Program constants.                                                      *)
(***************************************************************************)
DefaultThreshold == 100   \* low_selling_products.js: argv[2] absent
TopProductsN == 10        \* part_000: getTopProducts(reducedResults, 10)
TopSuppliersN == 15       \* part_002: getTopSuppliers(reducedResults, 15)

Scripts == {"monthly", "top", "type", "supplier", "split", "low"}

(***************************************************************************)
(* Text helpers.                                                           *)
(***************************************************************************)
DigitChars == <<"0", "1", "2", "3", "4", "5", "6", "7", "8", "9">>

IsDigit(c) == \E i \in 1..10 : DigitChars[i] = c

DigitVal(c) == (CHOOSE i \in 1..10 : DigitChars[i] = c) - 1

IsWhiteSpace(c) == c \in {" ", "\n"}

RECURSIVE TrimStart(_)
TrimStart(s) ==
    IF s # <<>> /\ IsWhiteSpace(Head(s)) THEN TrimStart(Tail(s)) ELSE s

RECURSIVE TrimEnd(_)
TrimEnd(s) ==
    IF s # <<>> /\ IsWhiteSpace(s[Len(s)])
    THEN TrimEnd(SubSeq(s, 1, Len(s) - 1))
    ELSE s

\* String.prototype.trim
Trim(s) == TrimEnd(TrimStart(s))

\* String.prototype.padStart(targetLength, padString) for a one-character pad
RECURSIVE PadStart(_, _, _)
PadStart(s, targetLength, c) ==
    IF Len(s) >= targetLength THEN s ELSE PadStart(<<c>> \o s, targetLength, c)

\* the decimal numeral of a natural number
RECURSIVE NatText(_)
NatText(n) ==
    IF n < 10 THEN <<DigitChars[n + 1]>>
    ELSE NatText(n \div 10) \o <<DigitChars[(n % 10) + 1]>>

\* String.prototype.split with a one-character separator
RECURSIVE Split(_, _)
Split(s, sep) ==
    IF \A k \in 1..Len(s) : s[k] # sep THEN <<s>>
    ELSE LET p == CHOOSE k \in 1..Len(s) :
                     s[k] = sep /\ \A j \in 1..(k - 1) : s[j] # sep
         IN  <<SubSeq(s, 1, p - 1)>> \o Split(SubSeq(s, p + 1, Len(s)), sep)

(***************************************************************************)
(* parseFloat(text): leading white space is skipped, then the longest      *)
(* prefix that is a decimal literal is converted; NaN when there is none.  *)
(* The result is <<>> for NaN and <<n>> for the number n.                  *)
(***************************************************************************)
NaN == <<>>

RECURSIVE DigitPrefix(_)
DigitPrefix(s) ==
    IF s # <<>> /\ IsDigit(Head(s)) THEN <<Head(s)>> \o DigitPrefix(Tail(s))
    ELSE <<>>

RECURSIVE DigitsValue(_)
DigitsValue(ds) ==
    IF ds = <<>> THEN 0
    ELSE 10 * DigitsValue(SubSeq(ds, 1, Len(ds) - 1)) + DigitVal(ds[Len(ds)])

\* mutant: leading white space is not skipped
ParseFloatNoTrim(text) ==
    LET signed == text # <<>> /\ Head(text) \in {"-", "+"}
        body == IF signed THEN Tail(text) ELSE text
        ds == DigitPrefix(body)
    IN  IF ds = <<>> THEN NaN
        ELSE IF signed /\ Head(text) = "-" THEN <<0 - DigitsValue(ds)>>
        ELSE <<DigitsValue(ds)>>

ParseFloat(text) ==
    LET t == TrimStart(text)
        signed == t # <<>> /\ Head(t) \in {"-", "+"}
        body == IF signed THEN Tail(t) ELSE t
        ds == DigitPrefix(body)
    IN  IF ds = <<>> THEN NaN
        ELSE IF signed /\ Head(t) = "-" THEN <<0 - DigitsValue(ds)>>
        ELSE <<DigitsValue(ds)>>

\* `parseFloat(x) || 0`: NaN and 0 are falsy
OrZero(p) == IF p = NaN \/ p = <<0>> THEN 0 ELSE p[1]

\* parseInt(text): leading white space is skipped, then a sign and the longest
\* run of decimal digits are converted; NaN when there is no digit
ParseInt(text) ==
    LET t == TrimStart(text)
        negative == t # <<>> /\ Head(t) = "-"
        body == IF t # <<>> /\ Head(t) \in {"-", "+"} THEN Tail(t) ELSE t
    IN  IF body = <<>> \/ ~IsDigit(Head(body)) THEN NaN
        ELSE IF negative THEN <<0 - DigitsValue(DigitPrefix(body))>>
        ELSE <<DigitsValue(DigitPrefix(body))>>

\* a JavaScript string is truthy exactly when it is not empty
Truthy(s) == s # <<>>

\* `key && key.trim() !== ''`
NonBlank(s) == Truthy(s) /\ Trim(s) # <<>>

(***************************************************************************)
(* dataset.csv after parseCSV: a sequence of records, each a mapping from  *)
(* header name to text.  The rows a script can meet are drawn from a small *)
(* set per script; fields the script never reads are fixed.                *)
(***************************************************************************)
Headers ==
    {"YEAR", "MONTH", "SUPPLIER", "ITEM CODE", "ITEM DESCRIPTION", "ITEM TYPE",
     "RETAIL SALES", "WAREHOUSE SALES"}

Row(year, month, supplier, code, desc, type, retail, warehouse) ==
    [h \in Headers |->
        CASE h = "YEAR" -> year
          [] h = "MONTH" -> month
          [] h = "SUPPLIER" -> supplier
          [] h = "ITEM CODE" -> code
          [] h = "ITEM DESCRIPTION" -> desc
          [] h = "ITEM TYPE" -> type
          [] h = "RETAIL SALES" -> retail
          [] h = "WAREHOUSE SALES" -> warehouse]

Y2020 == <<"2", "0", "2", "0">>
Y2021 == <<"2", "0", "2", "1">>
A001 == <<"A", "0", "0", "1">>
B002 == <<"B", "0", "0", "2">>
C003 == <<"C", "0", "0", "3">>
Z1 == <<"Z", "1">>
Blank == <<" ">>
Empty == <<>>
Wine == <<"W", "I", "N", "E">>
Beer == <<"B", "E", "E", "R">>
Kegs == <<"K", "E", "G", "S">>
Acme == <<"A", "C", "M", "E">>
Bolt == <<"B", "O", "L", "T">>
Cask == <<"C", "A", "S", "K">>
Desc == <<"d">>
Other == <<"o">>

MonthlyRows ==
    { Row(Y2021, month, Acme, A001, Desc, Wine, retail, <<"0">>) :
        month \in {<<"1">>, <<"2">>, <<"1", "0">>},
        retail \in {<<"1", "0", "0">>, <<"1", "5", "0">>} }
    \cup { Row(Y2020, <<"4">>, Acme, A001, Desc, Wine, <<"1", "0", "0">>, <<"0">>) }
    \cup { Row(Y2021, Empty, Acme, A001, Desc, Wine, <<"1", "0", "0">>, <<"0">>),
           Row(Y2021, <<"2">>, Acme, A001, Desc, Wine, <<"x">>, Empty) }

TopRows ==
    { Row(Y2021, <<"1">>, Acme, code,
          IF retail = <<"5", "0">> THEN Desc ELSE Other, Wine, retail, <<"0">>) :
        code \in {A001, B002, C003},
        retail \in {<<"5", "0">>, <<"2", "5">>} }
    \cup { Row(Y2021, <<"1">>, Acme, A001, Desc, Wine, <<"0">>, <<"x">>),
           Row(Y2021, <<"1">>, Acme, Blank, Desc, Wine, <<"2", "5">>, Empty) }

TypeRows ==
    { Row(Y2021, <<"1">>, Acme, A001, Desc, type, retail, <<"2", "5">>) :
        type \in {Wine, Beer, Kegs},
        retail \in {<<"2", "5">>, <<" ", "7", "5">>} }
    \cup { Row(Y2021, <<"1">>, Acme, A001, Desc, Wine, Empty, <<"0">>),
           Row(Y2021, <<"1">>, Acme, A001, Desc, Blank, <<"2", "5">>, <<"0">>) }

SupplierRows ==
    { Row(Y2021, <<"1">>, supplier, A001, Desc, Wine, <<"0">>, warehouse) :
        supplier \in {Acme, Bolt, Cask},
        warehouse \in {<<"5", "0">>, <<"2", "5", "k", "g">>} }
    \cup { Row(Y2021, <<"1">>, Acme, A001, Desc, Wine, <<"-", "5">>, <<"5">>),
           Row(Y2021, <<"1">>, Empty, A001, Desc, Wine, <<"5", "0">>, <<"0">>) }

SplitRows ==
    { Row(Y2021, <<"1">>, Acme, A001, Desc, Wine, retail, warehouse) :
        retail \in {<<"3", "0", "0">>, <<"1", "0", "0">>, <<"0">>},
        warehouse \in {<<"7", "0", "0">>, <<"1", "0", "0">>, <<"n", "a">>} }

LowRows ==
    { Row(Y2021, <<"1">>, Acme, cr[1], Desc, Wine, cr[2], <<"0">>) :
        cr \in {<<Z1, <<"0">>>>, <<Z1, <<"4", "0">>>>,
                <<A001, <<"4", "0">>>>, <<A001, <<"6", "0">>>>} }
    \cup { Row(Y2021, <<"1">>, Bolt, cr[1], Other, Beer, cr[2], <<"0">>) :
             cr \in {<<Z1, <<"5">>>>, <<B002, <<"-", "5">>>>} }
    \cup { Row(Y2021, <<"1">>, Acme, Z1, Desc, Wine, Empty, <<"x">>),
           Row(Y2021, <<"1">>, Acme, Blank, Desc, Wine, <<"4", "0">>, <<"0">>) }

RecordSet(s) ==
    CASE s = "monthly" -> MonthlyRows
      [] s = "top" -> TopRows
      [] s = "type" -> TypeRows
      [] s = "supplier" -> SupplierRows
      [] s = "split" -> SplitRows
      [] s = "low" -> LowRows

Datasets(s) == UNION { [1..n -> RecordSet(s)] : n \in 0..MaxRecords }

\* process.argv[2] of low_selling_products.js; "absent" when not given
NoArg == "absent"

ArgvSet(s) ==
    IF s = "low" THEN {NoArg, <<"5", "0">>} ELSE {NoArg}

\* n of getTopProducts / getTopSuppliers: the value main() passes, and a small
\* value that cuts the ranking short
TopNSet(s) ==
    CASE s = "top" -> {MaxTopN, TopProductsN}
      [] s = "supplier" -> {MaxTopN, TopSuppliersN}
      [] OTHER -> {0}

(***************************************************************************)
(* An insertion-ordered Map: a sequence of <<key, value>> entries.         *)
(***************************************************************************)
MapHas(m, k) == \E i \in 1..Len(m) : m[i][1] = k

MapIndex(m, k) == CHOOSE i \in 1..Len(m) : m[i][1] = k

MapGet(m, k) == m[MapIndex(m, k)][2]

\* Map.prototype.set: a new key is appended, an existing key keeps its place
MapSet(m, k, v) ==
    IF MapHas(m, k) THEN [m EXCEPT ![MapIndex(m, k)] = <<k, v>>]
    ELSE Append(m, <<k, v>>)

MapKeys(m) == [i \in 1..Len(m) |-> m[i][1]]

MapValues(m) == [i \in 1..Len(m) |-> m[i][2]]

(***************************************************************************)
(* The state of one run.                                                   *)
(***************************************************************************)
VARIABLES
    script,             \* which analysis runs
    argv,               \* process.argv[2] (low-selling products only)
    topN,               \* n handed to getTopProducts / getTopSuppliers
    dataset,            \* the rows of dataset.csv
    pc,                 \* position in main()
    threshold,          \* LowSellingProductsMapReduce.threshold
    records,            \* result of parseCSV
    processedRecords,   \* records handed to map() so far
    locals,             \* the normalized sales of the latest map() call
    mapResults,         \* this.mapResults
    reducedResults,     \* result of reduce()
    lowSellingProducts, \* second result of reduce() (low-selling products)
    sorted,             \* the ranked entries
    report,             \* what main() printed from the groups
    error,              \* message logged by the catch block, or "none"
    stderr,             \* the console.error lines, in order
    exitCode,           \* exit status of the process, << >> while it runs
    calls,              \* the calls main() has made so far, by name
    mapped,             \* the places in records of the records handed to map()
    csvContent,         \* parseCSV: its argument
    lines,              \* parseCSV: csvContent.trim().split('\n')
    headers,            \* parseCSV: lines[0].split(',')
    parsedRecords,      \* parseCSV: the local array records
    lineNumber,         \* parseCSV: the loop index i
    parsePc             \* parseCSV: position in the function

vars ==
    <<script, argv, topN, dataset, pc, threshold, records, processedRecords,
      locals, mapResults, reducedResults, lowSellingProducts, sorted, report,
      error, stderr, exitCode, calls, mapped>>

parseVars == <<csvContent, lines, headers, parsedRecords, lineNumber, parsePc>>

NoCall == [called |-> FALSE]
NoReport == [printed |-> FALSE]
Running == <<>>

\* mutant: the handler logs and throws again, so the runtime reports the
\* uncaught error as well and the process fails
CaughtAndRethrown(message) ==
    [stderr |-> <<message, message>>, exitCode |-> <<1>>]

\* catch (error) { console.error('Error processing data:', error.message); }
\* after which main() returns and the process ends with status 0
Caught(message) == [stderr |-> <<message>>, exitCode |-> <<0>>]

(***************************************************************************)
(* Record normalizer: the first lines of every map().                      *)
(***************************************************************************)
TotalOf(retailSales, warehouseSales) == retailSales + warehouseSales

Normalize(record) ==
    LET retailSales == OrZero(ParseFloat(record["RETAIL SALES"]))
        warehouseSales == OrZero(ParseFloat(record["WAREHOUSE SALES"]))
    IN  [called |-> TRUE,
         retailSales |-> retailSales,
         warehouseSales |-> warehouseSales,
         totalSales |-> TotalOf(retailSales, warehouseSales)]

(***************************************************************************)
(* map() of each script: the Map after the call.                           *)
(***************************************************************************)
\* mutant: the month is not padded
MonthKeyNoPad(year, month) == year \o <<"-">> \o month

\* `${year}-${month.toString().padStart(2, '0')}`
MonthKey(year, month) == year \o <<"-">> \o PadStart(month, 2, "0")

\* if (!has(key)) set(key, []); get(key).push(value)
PushArray(m, key, value) ==
    LET m1 == IF MapHas(m, key) THEN m ELSE MapSet(m, key, <<>>)
    IN  MapSet(m1, key, Append(MapGet(m1, key), value))

\* mutant: every record of the key writes its metadata over the group's
PushGroupOverwrite(m, key, meta, value) ==
    LET old == IF MapHas(m, key) THEN MapGet(m, key).sales ELSE <<>>
    IN  MapSet(m, key, [meta EXCEPT !.sales = Append(old, value)])

\* the same with a group object { sales: [], ...meta } created on first sight
PushGroup(m, key, meta, value) ==
    LET m1 == IF MapHas(m, key) THEN m ELSE MapSet(m, key, meta)
        g == MapGet(m1, key)
    IN  MapSet(m1, key, [g EXCEPT !.sales = Append(@, value)])

MonthlyMap(m, record) ==
    LET year == record["YEAR"]
        month == record["MONTH"]
        totalSales == Normalize(record).totalSales
    IN  IF totalSales > 0 /\ Truthy(year) /\ Truthy(month)
        THEN PushArray(m, MonthKey(year, month), totalSales)
        ELSE m

\* mutant: the blank-key test of the other scripts
TopMapNonBlank(m, record) ==
    LET itemCode == record["ITEM CODE"]
        itemDescription == record["ITEM DESCRIPTION"]
        totalSales == Normalize(record).totalSales
    IN  IF totalSales > 0 /\ NonBlank(itemCode)
        THEN PushGroup(m, itemCode,
                       [sales |-> <<>>, description |-> itemDescription],
                       totalSales)
        ELSE m

TopMap(m, record) ==
    LET itemCode == record["ITEM CODE"]
        itemDescription == record["ITEM DESCRIPTION"]
        totalSales == Normalize(record).totalSales
    IN  IF totalSales > 0
        THEN PushGroup(m, itemCode,
                       [sales |-> <<>>, description |-> itemDescription],
                       totalSales)
        ELSE m

\* mutant: records of total 0 are kept too
TypeMapKeepsZero(m, record) ==
    LET itemType == record["ITEM TYPE"]
        totalSales == Normalize(record).totalSales
    IN  IF totalSales >= 0 /\ NonBlank(itemType)
        THEN PushArray(m, itemType, totalSales)
        ELSE m

TypeMap(m, record) ==
    LET itemType == record["ITEM TYPE"]
        totalSales == Normalize(record).totalSales
    IN  IF totalSales > 0 /\ NonBlank(itemType)
        THEN PushArray(m, itemType, totalSales)
        ELSE m

SupplierMap(m, record) ==
    LET supplier == record["SUPPLIER"]
        totalSales == Normalize(record).totalSales
    IN  IF totalSales > 0 /\ NonBlank(supplier)
        THEN PushArray(m, supplier, totalSales)
        ELSE m

\* mutant: a channel's value is pushed when it is not negative
SplitMapNonNegative(m, record) ==
    LET retailSales == Normalize(record).retailSales
        warehouseSales == Normalize(record).warehouseSales
        m1 == IF retailSales >= 0 THEN PushArray(m, "retail", retailSales) ELSE m
    IN  IF warehouseSales >= 0 THEN PushArray(m1, "warehouse", warehouseSales)
        ELSE m1

SplitMap(m, record) ==
    LET retailSales == Normalize(record).retailSales
        warehouseSales == Normalize(record).warehouseSales
        m1 == IF retailSales > 0 THEN PushArray(m, "retail", retailSales) ELSE m
    IN  IF warehouseSales > 0 THEN PushArray(m1, "warehouse", warehouseSales)
        ELSE m1

\* mutant: the totalSales > 0 filter of the other scripts
LowMapPositiveOnly(m, record) ==
    LET itemCode == record["ITEM CODE"]
        itemDescription == record["ITEM DESCRIPTION"]
        itemType == record["ITEM TYPE"]
        supplier == record["SUPPLIER"]
        totalSales == Normalize(record).totalSales
    IN  IF totalSales > 0 /\ NonBlank(itemCode)
        THEN PushGroup(m, itemCode,
                       [sales |-> <<>>, description |-> itemDescription,
                        itemType |-> itemType, supplier |-> supplier],
                       totalSales)
        ELSE m

LowMap(m, record) ==
    LET itemCode == record["ITEM CODE"]
        itemDescription == record["ITEM DESCRIPTION"]
        itemType == record["ITEM TYPE"]
        supplier == record["SUPPLIER"]
        totalSales == Normalize(record).totalSales
    IN  IF NonBlank(itemCode)
        THEN PushGroup(m, itemCode,
                       [sales |-> <<>>, description |-> itemDescription,
                        itemType |-> itemType, supplier |-> supplier],
                       totalSales)
        ELSE m

MapOf(s, m, record) ==
    CASE s = "monthly" -> MonthlyMap(m, record)
      [] s = "top" -> TopMap(m, record)
      [] s = "type" -> TypeMap(m, record)
      [] s = "supplier" -> SupplierMap(m, record)
      [] s = "split" -> SplitMap(m, record)
      [] s = "low" -> LowMap(m, record)

\* the array of contributions of a group of mapResults
SalesOf(s, value) == IF s \in {"top", "low"} THEN value.sales ELSE value

(***************************************************************************)
(* Start of main(): the threshold, the read, the parse, the constructor.   *)
(***************************************************************************)
\* mutant: the argument is not read
ThresholdIgnoresArgv(arg) == <<DefaultThreshold>>

\* process.argv[2] ? parseFloat(process.argv[2]) : 100
ThresholdOf(arg) ==
    IF arg = NoArg THEN <<DefaultThreshold>>
    ELSE IF Truthy(arg) THEN ParseFloat(arg) ELSE <<DefaultThreshold>>

Init ==
    /\ script \in Scripts
    /\ argv \in ArgvSet(script)
    /\ topN \in TopNSet(script)
    /\ dataset \in Datasets(script)
    /\ pc = "read"
    /\ threshold = <<DefaultThreshold>>
    /\ records = <<>>
    /\ processedRecords = 0
    /\ locals = NoCall
    /\ mapResults = <<>>
    /\ reducedResults = <<>>
    /\ lowSellingProducts = <<>>
    /\ sorted = <<>>
    /\ report = NoReport
    /\ error = "none"
    /\ stderr = <<>>
    /\ exitCode = Running
    /\ calls = <<>>
    /\ mapped = <<>>
    /\ csvContent = <<>>
    /\ lines = <<>>
    /\ headers = <<>>
    /\ parsedRecords = <<>>
    /\ lineNumber = 1
    /\ parsePc = "idle"

\* readFileSync succeeds: parseCSV, new ...MapReduce(threshold)
ReadDataset ==
    /\ UNCHANGED parseVars
    /\ pc = "read"
    /\ pc' = "map"
    /\ records' = dataset
    /\ calls' = calls \o <<"readFileSync", "parseCSV">>
    /\ UNCHANGED mapped
    /\ threshold' = ThresholdOf(argv)
    /\ mapResults' = <<>>
    /\ UNCHANGED <<script, argv, topN, dataset, processedRecords, locals,
                   reducedResults, lowSellingProducts, sorted, report, error,
                   stderr, exitCode>>

\* readFileSync throws: the catch block logs and main() returns
ReadFails ==
    /\ UNCHANGED parseVars
    /\ pc = "read"
    /\ pc' = "done"
    /\ error' = "ENOENT"
    /\ calls' = Append(calls, "readFileSync")
    /\ UNCHANGED mapped
    /\ stderr' = stderr \o Caught("ENOENT").stderr
    /\ exitCode' = Caught("ENOENT").exitCode
    /\ UNCHANGED <<script, argv, topN, dataset, threshold, records,
                   processedRecords, locals, mapResults, reducedResults,
                   lowSellingProducts, sorted, report>>

\* one turn of records.forEach: map(record); processedRecords++
MapRecord ==
    /\ UNCHANGED parseVars
    /\ pc = "map"
    /\ processedRecords < Len(records)
    /\ LET record == records[processedRecords + 1]
       IN  /\ mapResults' = MapOf(script, mapResults, record)
           /\ locals' = Normalize(record)
    /\ processedRecords' = processedRecords + 1
    /\ calls' = Append(calls, "map")
    /\ mapped' = Append(mapped, processedRecords + 1)
    /\ UNCHANGED <<script, argv, topN, dataset, pc, threshold, records,
                   reducedResults, lowSellingProducts, sorted, report, error,
                   stderr, exitCode>>

(***************************************************************************)
(* reduce() of each script.                                                *)
(***************************************************************************)
\* mutant: the fold starts at the second element
RECURSIVE SumSkipFirst(_)
SumSkipFirst(a) ==
    IF Len(a) <= 1 THEN 0
    ELSE SumSkipFirst(SubSeq(a, 1, Len(a) - 1)) + a[Len(a)]

\* array.reduce((sum, sales) => sum + sales, 0)
RECURSIVE Sum(_)
Sum(a) == IF a = <<>> THEN 0 ELSE Sum(SubSeq(a, 1, Len(a) - 1)) + a[Len(a)]

\* mutant: every contribution is counted
CountAll(a) == Len(a)

\* array.filter(sale => sale > 0).length
RECURSIVE CountPositive(_)
CountPositive(a) ==
    IF a = <<>> THEN 0
    ELSE CountPositive(Tail(a)) + (IF Head(a) > 0 THEN 1 ELSE 0)

\* the quotient a / b of two numbers, kept exact; den = 0 is a non-finite value
Div(a, b) == [num |-> a, den |-> b]

\* a < t for a number a and a parsed number t: false when t is NaN
LessThan(a, t) == t # NaN /\ a < t[1]

\* monthly trends, product types, channel split
SummaryReduce(m) ==
    [i \in 1..Len(m) |->
        LET salesArray == m[i][2]
            totalSales == Sum(salesArray)
            transactionCount == Len(salesArray)
        IN  <<m[i][1],
              [totalSales |-> totalSales,
               transactionCount |-> transactionCount,
               averageSale |-> Div(totalSales, transactionCount)]>>]

TopReduce(m) ==
    [i \in 1..Len(m) |->
        LET data == m[i][2]
        IN  <<m[i][1],
              [totalSales |-> Sum(data.sales),
               description |-> data.description]>>]

SupplierReduce(m) ==
    [i \in 1..Len(m) |-> <<m[i][1], Sum(m[i][2])>>]

\* mutant: the quotient is taken whatever the count
LowReduceUnguarded(m) ==
    [i \in 1..Len(m) |->
        LET data == m[i][2]
            totalSales == Sum(data.sales)
            transactionCount == CountPositive(data.sales)
        IN  <<m[i][1],
              [totalSales |-> totalSales,
               transactionCount |-> transactionCount,
               averageSale |-> Div(totalSales, transactionCount),
               description |-> data.description,
               itemType |-> data.itemType,
               supplier |-> data.supplier]>>]

LowReduce(m) ==
    [i \in 1..Len(m) |->
        LET data == m[i][2]
            totalSales == Sum(data.sales)
            transactionCount == CountPositive(data.sales)
        IN  <<m[i][1],
              [totalSales |-> totalSales,
               transactionCount |-> transactionCount,
               averageSale |-> IF transactionCount > 0
                               THEN Div(totalSales, transactionCount)
                               ELSE Div(0, 1),
               description |-> data.description,
               itemType |-> data.itemType,
               supplier |-> data.supplier]>>]

\* mutant: totalSales <= this.threshold
IsLowSellingInclusive(totalSales, t) == t # NaN /\ totalSales <= t[1]

\* if (totalSales < this.threshold) lowSellingProducts.set(itemCode, productData)
IsLowSelling(totalSales, t) == LessThan(totalSales, t)

RECURSIVE LowFilter(_, _)
LowFilter(reduced, t) ==
    IF reduced = <<>> THEN <<>>
    ELSE LET rest == LowFilter(SubSeq(reduced, 1, Len(reduced) - 1), t)
             e == reduced[Len(reduced)]
         IN  IF IsLowSelling(e[2].totalSales, t) THEN Append(rest, e) ELSE rest

ReduceOf(s, m) ==
    CASE s \in {"monthly", "type", "split"} -> SummaryReduce(m)
      [] s = "top" -> TopReduce(m)
      [] s = "supplier" -> SupplierReduce(m)
      [] s = "low" -> LowReduce(m)

\* totalSales of a reduced value
TotalSalesOf(s, value) == IF s = "supplier" THEN value ELSE value.totalSales

\* mutant: reduce() may be called while records are still waiting for map()
ReduceEarly ==
    /\ UNCHANGED parseVars
    /\ pc = "map"
    /\ processedRecords <= Len(records)
    /\ pc' = "rank"
    /\ calls' = Append(calls, "reduce")
    /\ UNCHANGED mapped
    /\ reducedResults' = ReduceOf(script, mapResults)
    /\ lowSellingProducts' =
          IF script = "low" THEN LowFilter(ReduceOf(script, mapResults), threshold)
          ELSE <<>>
    /\ UNCHANGED <<script, argv, topN, dataset, threshold, records,
                   processedRecords, locals, mapResults, sorted, report, error,
                   stderr, exitCode>>

\* the forEach is over: reduce()
Reduce ==
    /\ UNCHANGED parseVars
    /\ pc = "map"
    /\ processedRecords = Len(records)
    /\ pc' = "rank"
    /\ calls' = Append(calls, "reduce")
    /\ UNCHANGED mapped
    /\ reducedResults' = ReduceOf(script, mapResults)
    /\ lowSellingProducts' =
          IF script = "low" THEN LowFilter(ReduceOf(script, mapResults), threshold)
          ELSE <<>>
    /\ UNCHANGED <<script, argv, topN, dataset, threshold, records,
                   processedRecords, locals, mapResults, sorted, report, error,
                   stderr, exitCode>>

(***************************************************************************)
(* Ranking.  Array.prototype.sort is stable: an element goes behind every  *)
(* element the comparator does not put after it.                           *)
(***************************************************************************)
CollationOrder == <<"-", "0", "1", "2", "3", "4", "5", "6", "7", "8", "9">>

CharRank(c) == CHOOSE i \in 1..Len(CollationOrder) : CollationOrder[i] = c

\* a.localeCompare(b) on texts of digits and '-'
RECURSIVE LocaleCompare(_, _)
LocaleCompare(a, b) ==
    IF a = <<>> /\ b = <<>> THEN 0
    ELSE IF a = <<>> THEN 0 - 1
    ELSE IF b = <<>> THEN 1
    ELSE IF CharRank(Head(a)) < CharRank(Head(b)) THEN 0 - 1
    ELSE IF CharRank(Head(a)) > CharRank(Head(b)) THEN 1
    ELSE LocaleCompare(Tail(a), Tail(b))

\* mutant: the descending comparator written as a - b
CompareAscending(order, a, b) ==
    CASE order = "monthKey" -> LocaleCompare(a[1], b[1])
      [] order = "totalDesc" -> a[2].totalSales - b[2].totalSales
      [] order = "valueDesc" -> a[2] - b[2]
      [] order = "totalAsc" -> a[2].totalSales - b[2].totalSales

\* the comparator handed to sort, by the ranking it implements
Compare(order, a, b) ==
    CASE order = "monthKey" -> LocaleCompare(a[1], b[1])
      [] order = "totalDesc" -> b[2].totalSales - a[2].totalSales
      [] order = "valueDesc" -> b[2] - a[2]
      [] order = "totalAsc" -> a[2].totalSales - b[2].totalSales

\* x placed behind the last element of the sorted s that need not follow it
InsertSorted(s, x, order) ==
    LET after == {i \in 1..Len(s) : Compare(order, s[i], x) > 0}
        pos == IF after = {} THEN Len(s) + 1
               ELSE CHOOSE i \in after : \A j \in after : i <= j
    IN  SubSeq(s, 1, pos - 1) \o <<x>> \o SubSeq(s, pos, Len(s))

RECURSIVE ArraySort(_, _)
ArraySort(a, order) ==
    IF a = <<>> THEN <<>>
    ELSE InsertSorted(ArraySort(SubSeq(a, 1, Len(a) - 1), order), a[Len(a)], order)

\* mutant: slice(0, n + 1)
SliceOneMore(a, n) == SubSeq(a, 1, IF n + 1 < Len(a) THEN n + 1 ELSE Len(a))

\* array.slice(0, n) for n >= 0
Slice(a, n) == SubSeq(a, 1, IF n < Len(a) THEN n ELSE Len(a))

GetMonthsSorted(reduced) == ArraySort(reduced, "monthKey")

GetTopProducts(reduced, n) == Slice(ArraySort(reduced, "totalDesc"), n)

GetProductTypesByPopularity(reduced) == ArraySort(reduced, "totalDesc")

GetTopSuppliers(reduced, n) == Slice(ArraySort(reduced, "valueDesc"), n)

SortedResults(reduced) == ArraySort(reduced, "totalDesc")

GetLowSellingProductsSorted(lowSelling) == ArraySort(lowSelling, "totalAsc")

RankOf(s, reduced, lowSelling, n) ==
    CASE s = "monthly" -> GetMonthsSorted(reduced)
      [] s = "top" -> GetTopProducts(reduced, n)
      [] s = "type" -> GetProductTypesByPopularity(reduced)
      [] s = "supplier" -> GetTopSuppliers(reduced, n)
      [] s = "split" -> SortedResults(reduced)
      [] s = "low" -> GetLowSellingProductsSorted(lowSelling)

Rank ==
    /\ UNCHANGED parseVars
    /\ pc = "rank"
    /\ pc' = "print"
    /\ calls' = Append(calls, "sort")
    /\ UNCHANGED mapped
    /\ sorted' = RankOf(script, reducedResults, lowSellingProducts, topN)
    /\ UNCHANGED <<script, argv, topN, dataset, threshold, records,
                   processedRecords, locals, mapResults, reducedResults,
                   lowSellingProducts, report, error, stderr, exitCode>>

(***************************************************************************)
(* Number formatting.                                                      *)
(***************************************************************************)
Abs(n) == IF n < 0 THEN 0 - n ELSE n

RECURSIVE Pow10(_)
Pow10(f) == IF f = 0 THEN 1 ELSE 10 * Pow10(f - 1)

\* String.prototype.padEnd(targetLength) with the default pad ' '
RECURSIVE PadEnd(_, _)
PadEnd(s, targetLength) ==
    IF Len(s) >= targetLength THEN s ELSE PadEnd(s \o <<" ">>, targetLength)

IsFinite(q) == q.den # 0

\* q < 0, q >= 0 and a > b for quotients; every comparison with NaN is false
RatNegative(q) ==
    IF q.den = 0 THEN q.num < 0 ELSE (q.num < 0) # (q.den < 0) /\ q.num # 0

RatNonNegative(q) ==
    IF q.den = 0 THEN q.num > 0 ELSE ~RatNegative(q)

\* mutant: a >= b
RatGreaterOrEqual(a, b) ==
    /\ IsFinite(a)
    /\ IsFinite(b)
    /\ a.num * b.den * (IF a.den < 0 THEN 0 - 1 ELSE 1) * (IF b.den < 0 THEN 0 - 1 ELSE 1)
         >= b.num * a.den * (IF a.den < 0 THEN 0 - 1 ELSE 1) * (IF b.den < 0 THEN 0 - 1 ELSE 1)

RatGreater(a, b) ==
    /\ IsFinite(a)
    /\ IsFinite(b)
    /\ a.num * b.den * (IF a.den < 0 THEN 0 - 1 ELSE 1) * (IF b.den < 0 THEN 0 - 1 ELSE 1)
         > b.num * a.den * (IF a.den < 0 THEN 0 - 1 ELSE 1) * (IF b.den < 0 THEN 0 - 1 ELSE 1)

\* Number.prototype.toFixed(f): the nearest numeral with f fraction digits,
\* the larger one on a tie, '-' in front of a negative number
ToFixed(q, f) ==
    IF q.den = 0
    THEN (IF q.num = 0 THEN <<"N", "a", "N">>
          ELSE IF q.num > 0 THEN <<"I", "n", "f", "i", "n", "i", "t", "y">>
          ELSE <<"-", "I", "n", "f", "i", "n", "i", "t", "y">>)
    ELSE LET a == Abs(q.num) * Pow10(f)
             d == Abs(q.den)
             n == (2 * a + d) \div (2 * d)
             digits == PadStart(NatText(n), f + 1, "0")
             whole == SubSeq(digits, 1, Len(digits) - f)
             fraction == SubSeq(digits, Len(digits) - f + 1, Len(digits))
         IN  (IF RatNegative(q) THEN <<"-">> ELSE <<>>)
             \o whole
             \o (IF f > 0 THEN <<".">> \o fraction ELSE <<>>)

Dollars(q) == <<"$">> \o ToFixed(q, 2)

Percent(q) == ToFixed(q, 1) \o <<"%">>

NotAvailable == <<"N", "/", "A">>

\* the values of reducedResults are plain numbers only in the supplier script;
\* elsewhere they are objects, which have no toFixed method
NumberValued(s) == s = "supplier"

(***************************************************************************)
(* The report of each script: what main() prints after ranking, up to the  *)
(* statement that throws, if one does.                                     *)
(***************************************************************************)
RECURSIVE SumTotals(_)
SumTotals(entries) ==
    IF entries = <<>> THEN 0
    ELSE SumTotals(SubSeq(entries, 1, Len(entries) - 1))
            + entries[Len(entries)][2].totalSales

RECURSIVE SumTransactions(_)
SumTransactions(entries) ==
    IF entries = <<>> THEN 0
    ELSE SumTransactions(SubSeq(entries, 1, Len(entries) - 1))
            + entries[Len(entries)][2].transactionCount

\* ((data.totalSales - previousSales) / previousSales) * 100
Growth(totalSales, previousSales) ==
    Div((totalSales - previousSales) * 100, previousSales)

GrowthStr(growth) ==
    (IF RatNonNegative(growth) THEN <<"+">> ELSE <<>>) \o Percent(growth)

MonthlyRow(monthsSorted, i) ==
    LET data == monthsSorted[i][2]
    IN  [monthKey |-> monthsSorted[i][1],
         formattedSales |-> PadEnd(Dollars(Div(data.totalSales, 1)), 14),
         formattedTransactions |-> PadEnd(NatText(data.transactionCount), 12),
         formattedAvgSale |-> PadEnd(Dollars(data.averageSale), 8),
         growthStr |-> IF i = 1 THEN NotAvailable
                       ELSE GrowthStr(Growth(data.totalSales,
                                             monthsSorted[i - 1][2].totalSales))]

\* mutant: every season begins one month early
SeasonOfEarly(monthKey) ==
    LET pieces == Split(monthKey, "-")
        month == ParseInt(IF Len(pieces) >= 2 THEN pieces[2] ELSE <<>>)
    IN  IF month = NaN THEN "Winter"
        ELSE IF month[1] >= 2 /\ month[1] <= 4 THEN "Spring"
        ELSE IF month[1] >= 5 /\ month[1] <= 7 THEN "Summer"
        ELSE IF month[1] >= 8 /\ month[1] <= 10 THEN "Fall"
        ELSE "Winter"

\* const month = parseInt(monthKey.split('-')[1]); every comparison with NaN
\* is false, so a key without a month number falls to Winter
SeasonOf(monthKey) ==
    LET pieces == Split(monthKey, "-")
        month == ParseInt(IF Len(pieces) >= 2 THEN pieces[2] ELSE <<>>)
    IN  IF month = NaN THEN "Winter"
        ELSE IF month[1] >= 3 /\ month[1] <= 5 THEN "Spring"
        ELSE IF month[1] >= 6 /\ month[1] <= 8 THEN "Summer"
        ELSE IF month[1] >= 9 /\ month[1] <= 11 THEN "Fall"
        ELSE "Winter"

\* seasonalData after monthsSorted.forEach: season -> { totalSales, months }
RECURSIVE SeasonalData(_)
SeasonalData(monthsSorted) ==
    IF monthsSorted = <<>> THEN <<>>
    ELSE LET seasonalData == SeasonalData(SubSeq(monthsSorted, 1, Len(monthsSorted) - 1))
             monthKey == monthsSorted[Len(monthsSorted)][1]
             data == monthsSorted[Len(monthsSorted)][2]
             season == SeasonOf(monthKey)
             old == IF MapHas(seasonalData, season) THEN MapGet(seasonalData, season)
                    ELSE [totalSales |-> 0, months |-> 0]
         IN  MapSet(seasonalData, season,
                    [totalSales |-> old.totalSales + data.totalSales,
                     months |-> old.months + 1])

\* the lines of SEASONAL ANALYSIS, largest season total first
SeasonalAnalysis(monthsSorted) ==
    LET seasons == ArraySort(SeasonalData(monthsSorted), "totalDesc")
    IN  [i \in 1..Len(seasons) |->
            [season |-> seasons[i][1],
             totalSales |-> seasons[i][2].totalSales,
             months |-> seasons[i][2].months,
             formattedTotal |-> Dollars(Div(seasons[i][2].totalSales, 1)),
             formattedAvg |->
                 Dollars(Div(seasons[i][2].totalSales, seasons[i][2].months))]]

\* monthsSorted.reduce(...) without an initial value throws on an empty array
MonthlyReport(monthsSorted) ==
    [printed |-> TRUE,
     rows |-> [i \in 1..Len(monthsSorted) |-> MonthlyRow(monthsSorted, i)],
     totalRevenue |-> SumTotals(monthsSorted),
     totalTransactions |-> SumTransactions(monthsSorted),
     sections |-> IF monthsSorted = <<>>
                  THEN <<"table", "formatted", "summary">>
                  ELSE <<"table", "formatted", "summary", "best", "seasonal">>,
     seasonal |-> SeasonalAnalysis(monthsSorted),
     error |-> IF monthsSorted = <<>>
               THEN "TypeError: Reduce of empty array with no initial value"
               ELSE "none"]

\* const [itemCode, totalSales] = product; totalSales.toFixed(2)
TopRow(topProducts, i) ==
    [rank |-> i,
     itemCode |-> topProducts[i][1],
     formattedSales |-> Dollars(Div(topProducts[i][2], 1))]

\* The first row calls toFixed on the group object and throws; with no row,
\* the summary calls toFixed on "0[object Object]" as soon as a group exists.
TopReport(topProducts, reduced) ==
    IF topProducts # <<>> /\ ~NumberValued("top")
    THEN [printed |-> TRUE, rows |-> <<>>, sections |-> <<"table">>,
          error |-> "TypeError: totalSales.toFixed is not a function"]
    ELSE IF reduced # <<>> /\ ~NumberValued("top")
    THEN [printed |-> TRUE, rows |-> <<>>, sections |-> <<"table", "summary">>,
          error |-> "TypeError: totalRevenue.toFixed is not a function"]
    ELSE [printed |-> TRUE,
          rows |-> [i \in 1..Len(topProducts) |-> TopRow(topProducts, i)],
          sections |-> <<"table", "summary">>,
          error |-> "none"]

RECURSIVE SumValues(_)
SumValues(entries) ==
    IF entries = <<>> THEN 0
    ELSE SumValues(SubSeq(entries, 1, Len(entries) - 1)) + entries[Len(entries)][2]

SupplierReport(topSuppliers, reduced) ==
    [printed |-> TRUE,
     rows |-> [i \in 1..Len(topSuppliers) |->
                 [rank |-> i,
                  supplierName |-> topSuppliers[i][1],
                  formattedSales |-> Dollars(Div(topSuppliers[i][2], 1))]],
     totalRevenue |-> SumValues(reduced),
     averageSales |-> Div(SumValues(reduced), Len(reduced)),
     sections |-> <<"table", "formatted", "summary">>,
     error |-> "none"]

\* mutant: the share is left a fraction
MarketShareFraction(totalSales, totalRevenue) == Div(totalSales, totalRevenue)

\* (data.totalSales / totalRevenue) * 100
MarketShare(totalSales, totalRevenue) == Div(totalSales * 100, totalRevenue)

TypeReport(productTypesByPopularity) ==
    LET totalRevenue == SumTotals(productTypesByPopularity)
        totalTransactions == SumTransactions(productTypesByPopularity)
    IN  [printed |-> TRUE,
         rows |-> [i \in 1..Len(productTypesByPopularity) |->
                     LET data == productTypesByPopularity[i][2]
                     IN  [rank |-> i,
                          itemType |-> productTypesByPopularity[i][1],
                          formattedSales |->
                              PadEnd(Dollars(Div(data.totalSales, 1)), 14),
                          formattedTransactions |->
                              PadEnd(NatText(data.transactionCount), 12),
                          formattedAvgSale |-> Dollars(data.averageSale)]],
         totalRevenue |-> totalRevenue,
         totalTransactions |-> totalTransactions,
         shares |-> [i \in 1..Len(productTypesByPopularity) |->
                       LET data == productTypesByPopularity[i][2]
                           marketShare == MarketShare(data.totalSales, totalRevenue)
                       IN  [key |-> productTypesByPopularity[i][1],
                            marketShare |-> marketShare,
                            text |-> Percent(marketShare)]],
         sections |-> <<"table", "formatted", "summary", "shares">>,
         error |-> "none"]

\* the COMPARATIVE INSIGHTS block, printed when both channels have a group
Comparative(reduced, totalRevenue) ==
    IF MapHas(reduced, "retail") /\ MapHas(reduced, "warehouse")
    THEN LET retailShare ==
                 MarketShare(MapGet(reduced, "retail").totalSales, totalRevenue)
             warehouseShare ==
                 MarketShare(MapGet(reduced, "warehouse").totalSales, totalRevenue)
         IN  [shown |-> TRUE,
              retailDominance |->
                  IF RatGreater(retailShare, warehouseShare) THEN "YES" ELSE "NO",
              retailShare |-> Percent(retailShare),
              warehouseShare |-> Percent(warehouseShare),
              businessModel |->
                  IF RatGreater(retailShare, Div(70, 1)) THEN "Retail-dominant"
                  ELSE IF RatGreater(warehouseShare, Div(70, 1))
                  THEN "Wholesale-dominant"
                  ELSE "Balanced"]
    ELSE [shown |-> FALSE]

SplitReport(sortedResults, reduced) ==
    LET totalRevenue == SumTotals(reduced)
        totalTransactions == SumTransactions(reduced)
    IN  [printed |-> TRUE,
         rows |-> [i \in 1..Len(sortedResults) |->
                     LET data == sortedResults[i][2]
                     IN  [channel |-> sortedResults[i][1],
                          formattedSales |->
                              PadEnd(Dollars(Div(data.totalSales, 1)), 14),
                          formattedTransactions |->
                              PadEnd(NatText(data.transactionCount), 12),
                          formattedAvgSale |-> PadEnd(Dollars(data.averageSale), 10)]],
         totalRevenue |-> totalRevenue,
         totalTransactions |-> totalTransactions,
         shares |-> [i \in 1..Len(sortedResults) |->
                       LET marketShare ==
                               MarketShare(sortedResults[i][2].totalSales, totalRevenue)
                       IN  [key |-> sortedResults[i][1],
                            marketShare |-> marketShare,
                            text |-> Percent(marketShare)]],
         comparative |-> Comparative(reduced, totalRevenue),
         sections |-> <<"table", "formatted", "detailed">>
                         \o (IF Comparative(reduced, totalRevenue).shown
                             THEN <<"comparative", "insights">> ELSE <<>>),
         error |-> "none"]

DisplayCount == 20   \* Math.min(20, lowSellingProductsSorted.length)

\* lowSellingProductsSorted.filter(product => product[1].totalSales === 0)
RECURSIVE ZeroSalesProducts(_)
ZeroSalesProducts(entries) ==
    IF entries = <<>> THEN <<>>
    ELSE LET rest == ZeroSalesProducts(SubSeq(entries, 1, Len(entries) - 1))
             e == entries[Len(entries)]
         IN  IF e[2].totalSales = 0 THEN Append(rest, e) ELSE rest

\* threshold * 0.1, threshold * 0.2, threshold * 0.6: NaN when the threshold is
Scaled(t, tenths) == IF t = NaN THEN Div(0, 0) ELSE Div(t[1] * tenths, 10)

\* a < b and a >= b for quotients; false when either side is NaN
RatLess(a, b) == RatGreater(b, a)

RatAtLeast(a, b) == IsFinite(a) /\ IsFinite(b) /\ ~RatGreater(b, a)

\* `${threshold}`
ThresholdText(t) == IF t = NaN THEN <<"N", "a", "N">> ELSE NatText(t[1])

\* the counts of the MARKETING RECOMMENDATIONS and urgency blocks
Tiers(lowSellingProductsSorted, t) ==
    LET total(i) == Div(lowSellingProductsSorted[i][2].totalSales, 1)
        count(S) == Cardinality(S)
        all == 1..Len(lowSellingProductsSorted)
    IN  [veryLowSales |->
             count({i \in all : /\ RatGreater(total(i), Div(0, 1))
                                /\ RatLess(total(i), Scaled(t, 1))}),
         lowButNotZero |->
             count({i \in all : /\ RatAtLeast(total(i), Scaled(t, 1))
                                /\ RatLess(total(i), Scaled(t, 10))}),
         urgent |-> count({i \in all : total(i).num = 0}),
         high |->
             count({i \in all : /\ RatGreater(total(i), Div(0, 1))
                                /\ RatLess(total(i), Scaled(t, 2))}),
         medium |->
             count({i \in all : /\ RatAtLeast(total(i), Scaled(t, 2))
                                /\ RatLess(total(i), Scaled(t, 6))}),
         low |-> count({i \in all : RatAtLeast(total(i), Scaled(t, 6))}),
         veryLowBound |-> ToFixed(Scaled(t, 1), 0),
         highBound |-> ToFixed(Scaled(t, 2), 0),
         mediumBound |-> ToFixed(Scaled(t, 6), 0),
         lowBound |-> ThresholdText(t)]

LowReport(lowSellingProductsSorted, t) ==
    LET shown == Slice(lowSellingProductsSorted, DisplayCount)
    IN  [printed |-> TRUE,
         heading |-> ThresholdText(t),
         tiers |-> Tiers(lowSellingProductsSorted, t),
         found |-> Len(lowSellingProductsSorted),
         rows |-> [i \in 1..Len(shown) |->
                     LET data == shown[i][2]
                     IN  [rank |-> i,
                          itemCode |-> shown[i][1],
                          formattedSales |->
                              PadEnd(Dollars(Div(data.totalSales, 1)), 11),
                          formattedTransactions |->
                              PadEnd(NatText(data.transactionCount), 12)]],
         zeroSalesProducts |-> MapKeys(ZeroSalesProducts(lowSellingProductsSorted)),
         sections |-> <<"table", "critical", "category", "supplier",
                        "recommendations", "insights", "push">>,
         error |-> "none"]

ReportOf(s, ranked, reduced, t) ==
    CASE s = "monthly" -> MonthlyReport(ranked)
      [] s = "top" -> TopReport(ranked, reduced)
      [] s = "type" -> TypeReport(ranked)
      [] s = "supplier" -> SupplierReport(ranked, reduced)
      [] s = "split" -> SplitReport(ranked, reduced)
      [] s = "low" -> LowReport(ranked, t)

\* the printing part of main(); a throw lands in the catch block, which logs
PrintReport ==
    /\ UNCHANGED parseVars
    /\ pc = "print"
    /\ pc' = "done"
    /\ calls' = Append(calls, "print")
    /\ UNCHANGED mapped
    /\ LET printed == ReportOf(script, sorted, reducedResults, threshold)
       IN  /\ report' = [f \in DOMAIN printed \ {"error"} |-> printed[f]]
           /\ error' = printed.error
    /\ stderr' = IF error' = "none" THEN stderr
                 ELSE stderr \o Caught(error').stderr
    /\ exitCode' = IF error' = "none" THEN <<0>> ELSE Caught(error').exitCode
    /\ UNCHANGED <<script, argv, topN, dataset, threshold, records,
                   processedRecords, locals, mapResults, reducedResults,
                   lowSellingProducts, sorted>>

Next == ReadDataset \/ ReadFails \/ MapRecord \/ Reduce \/ Rank \/ PrintReport

Spec == Init /\ [][Next]_vars

(***************************************************************************)
(* parseCSV, the same function in every script, run on its own: the text   *)
(* of a file is split into lines and each line after the first into the    *)
(* fields of one record.  The entries of a record are read by name only.   *)
(***************************************************************************)
MaxLines == 3       \* lines of the file, the header line included

CsvLines ==
    { <<>>,
      <<"a">>,
      <<"a", ",", "b">>,
      <<"a", ",", "a">>,
      <<"1">>,
      <<"1", ",", "2">>,
      <<"1", ",", "2", ",", "3">>,
      <<",", "2">> }

RECURSIVE Join(_, _)
Join(ls, sep) ==
    IF ls = <<>> THEN <<>>
    ELSE IF Len(ls) = 1 THEN ls[1]
    ELSE ls[1] \o <<sep>> \o Join(Tail(ls), sep)

\* files with and without a final newline, with white space around the text
CsvContents ==
    { lead \o Join(ls, "\n") \o trail :
        ls \in UNION { [1..n -> CsvLines] : n \in 0..MaxLines },
        lead \in {<<>>, <<"\n">>},
        trail \in {<<>>, <<"\n">>, <<" ">>} }

\* mutant: the value one place to the right
ValueAtNext(values, index) ==
    IF index + 1 <= Len(values) /\ Truthy(values[index + 1])
    THEN values[index + 1] ELSE <<>>

\* values[index] || '' (index counted from 1)
ValueAt(values, index) ==
    IF index <= Len(values) /\ Truthy(values[index]) THEN values[index] ELSE <<>>

\* headers.forEach((header, index) => { record[header] = values[index] || '' })
RECURSIVE SetFields(_, _, _, _)
SetFields(record, hs, values, index) ==
    IF index > Len(hs) THEN record
    ELSE SetFields(MapSet(record, hs[index], ValueAt(values, index)),
                   hs, values, index + 1)

RecordOf(hs, values) == SetFields(<<>>, hs, values, 1)

\* the main() of the scripts does not run while parseCSV is looked at alone
MainIdle ==
    /\ script = "monthly"
    /\ argv = NoArg
    /\ topN = 0
    /\ dataset = <<>>
    /\ pc = "read"
    /\ threshold = <<DefaultThreshold>>
    /\ records = <<>>
    /\ processedRecords = 0
    /\ locals = NoCall
    /\ mapResults = <<>>
    /\ reducedResults = <<>>
    /\ lowSellingProducts = <<>>
    /\ sorted = <<>>
    /\ report = NoReport
    /\ error = "none"
    /\ stderr = <<>>
    /\ exitCode = Running
    /\ calls = <<>>
    /\ mapped = <<>>

ParseInit ==
    /\ MainIdle
    /\ csvContent \in CsvContents
    /\ lines = <<>>
    /\ headers = <<>>
    /\ parsedRecords = <<>>
    /\ lineNumber = 1
    /\ parsePc = "start"

\* const lines = csvContent.trim().split('\n'); headers; records = []
SplitLines ==
    /\ parsePc = "start"
    /\ parsePc' = "loop"
    /\ lines' = Split(Trim(csvContent), "\n")
    /\ headers' = Split(lines'[1], ",")
    /\ parsedRecords' = <<>>
    /\ lineNumber' = 1
    /\ UNCHANGED csvContent
    /\ UNCHANGED vars

\* one turn of for (let i = 1; i < lines.length; i++)
PushRecord ==
    /\ parsePc = "loop"
    /\ lineNumber < Len(lines)
    /\ LET values == Split(lines[lineNumber + 1], ",")
       IN  parsedRecords' = Append(parsedRecords, RecordOf(headers, values))
    /\ lineNumber' = lineNumber + 1
    /\ UNCHANGED <<csvContent, lines, headers, parsePc>>
    /\ UNCHANGED vars

\* return records
ReturnRecords ==
    /\ parsePc = "loop"
    /\ lineNumber >= Len(lines)
    /\ parsePc' = "returned"
    /\ UNCHANGED <<csvContent, lines, headers, parsedRecords, lineNumber>>
    /\ UNCHANGED vars

ParseNext == SplitLines \/ PushRecord \/ ReturnRecords

ParseSpec == ParseInit /\ [][ParseNext]_parseVars

(***************************************************************************)
(* Properties.                                                             *)
(***************************************************************************)
Reduced == pc \in {"rank", "print", "done"} /\ error # "ENOENT"
Ranked == pc \in {"print", "done"} /\ error # "ENOENT"
Printed == pc = "done" /\ report.printed

\* left-to-right sum of a sequence of numbers
RECURSIVE FoldPlus(_, _, _)
FoldPlus(a, i, acc) ==
    IF i > Len(a) THEN acc ELSE FoldPlus(a, i + 1, acc + a[i])

KeySet(m) == {m[i][1] : i \in 1..Len(m)}

\* C1: in every analysis, once reduce() has run, the reduced groups are the
\* groups of mapResults, in the same order, and each group's totalSales is
\* the sum of all the contributions map() appended to that group.
C1_ReduceSumsContributions ==
    Reduced =>
        /\ Len(reducedResults) = Len(mapResults)
        /\ \A i \in 1..Len(mapResults) :
              /\ reducedResults[i][1] = mapResults[i][1]
              /\ TotalSalesOf(script, reducedResults[i][2])
                    = FoldPlus(SalesOf(script, mapResults[i][2]), 1, 0)
        /\ \A i \in 1..Len(lowSellingProducts) :
              \E j \in 1..Len(reducedResults) :
                  lowSellingProducts[i] = reducedResults[j]

C1_Witness ==
    /\ Reduced
    /\ \E i \in 1..Len(mapResults) :
          /\ Len(SalesOf(script, mapResults[i][2])) >= 2
          /\ TotalSalesOf(script, reducedResults[i][2]) = 100

(***************************************************************************)
(* What a sales field denotes, read off the text itself.                   *)
(***************************************************************************)
LeadingBlanks(text) ==
    CHOOSE k \in 0..Len(text) :
        /\ \A i \in 1..k : text[i] = " "
        /\ k = Len(text) \/ text[k + 1] # " "

\* the field is empty or does not start with a numeral
NonNumeric(text) ==
    LET k == LeadingBlanks(text)
    IN  \/ k = Len(text)
        \/ /\ ~IsDigit(text[k + 1])
           /\ ~(/\ text[k + 1] \in {"-", "+"}
                /\ k + 2 <= Len(text)
                /\ IsDigit(text[k + 2]))

\* the numeral of v stands at the start of the field and ends there
Denotes(text, v) ==
    LET k == LeadingBlanks(text)
        numeral == (IF v < 0 THEN <<"-">> ELSE <<>>) \o NatText(Abs(v))
        end == k + Len(numeral)
    IN  /\ end <= Len(text)
        /\ SubSeq(text, k + 1, end) = numeral
        /\ end = Len(text) \/ ~IsDigit(text[end + 1])

FieldValueOk(text, v) == IF NonNumeric(text) THEN v = 0 ELSE Denotes(text, v)

\* C2: for the record map() was last called with, retailSales and
\* warehouseSales are the numbers their fields denote, 0 when the field is
\* empty or not numeric, totalSales is their sum, and no error is raised.
C2_NormalizedTotal ==
    locals.called =>
        LET record == records[processedRecords]
        IN  /\ FieldValueOk(record["RETAIL SALES"], locals.retailSales)
            /\ FieldValueOk(record["WAREHOUSE SALES"], locals.warehouseSales)
            /\ locals.totalSales = locals.retailSales + locals.warehouseSales
            /\ pc = "map" => error = "none"

C2_Witness ==
    /\ locals.called
    /\ records[processedRecords]["RETAIL SALES"] = <<" ", "7", "5">>
    /\ records[processedRecords]["WAREHOUSE SALES"] = <<"2", "5">>
    /\ locals.totalSales = 100

\* C3: with threshold t, lowSellingProducts holds exactly the product groups
\* whose totalSales is strictly below t, those with totalSales 0 included.
C3_LowSellingExactlyBelowThreshold ==
    (Reduced /\ script = "low") =>
        /\ \A i \in 1..Len(reducedResults) :
              (\E j \in 1..Len(lowSellingProducts) :
                    lowSellingProducts[j] = reducedResults[i])
                <=> (\E t \in {threshold[k] : k \in DOMAIN threshold} :
                        reducedResults[i][2].totalSales < t)
        /\ KeySet(lowSellingProducts) \subseteq KeySet(reducedResults)
        /\ Len(lowSellingProducts) = Cardinality(KeySet(lowSellingProducts))

C3_Witness ==
    /\ Reduced
    /\ script = "low"
    /\ threshold = <<100>>
    /\ \E i \in 1..Len(lowSellingProducts) :
          lowSellingProducts[i][2].totalSales = 0
    /\ \E i \in 1..Len(reducedResults) :
          /\ reducedResults[i][2].totalSales = 100
          /\ reducedResults[i][1] \notin KeySet(lowSellingProducts)

\* C4: getTopProducts / getTopSuppliers return at most n entries, exactly n
\* when n is at most the number of groups, all of them reduced groups, and no
\* group left out has a total above that of a returned one.
C4_TopNSelection ==
    (Ranked /\ script \in {"top", "supplier"}) =>
        /\ Len(sorted) <= topN
        /\ topN <= Len(reducedResults) => Len(sorted) = topN
        /\ Cardinality(KeySet(sorted)) = Len(sorted)
        /\ \A i \in 1..Len(sorted) :
              \E j \in 1..Len(reducedResults) : sorted[i] = reducedResults[j]
        /\ \A j \in 1..Len(reducedResults) :
              reducedResults[j][1] \notin KeySet(sorted) =>
                  \A i \in 1..Len(sorted) :
                      TotalSalesOf(script, reducedResults[j][2])
                          <= TotalSalesOf(script, sorted[i][2])

C4_Witness ==
    /\ Ranked
    /\ script = "top"
    /\ topN = 2
    /\ Len(reducedResults) = 3
    /\ Len(sorted) = 2
    /\ reducedResults[1][2].totalSales = 25
    /\ reducedResults[1][1] \notin KeySet(sorted)

(***************************************************************************)
(* Ranking.                                                                *)
(***************************************************************************)
\* the groups a script ranks, and how many of them it keeps
RankedInput == IF script = "low" THEN lowSellingProducts ELSE reducedResults

RankLimit ==
    IF script \in {"top", "supplier"} /\ topN < Len(RankedInput) THEN topN
    ELSE Len(RankedInput)

\* position of a key in mapResults: the order in which keys were first inserted
InsertionRank(k) == CHOOSE i \in 1..Len(mapResults) : mapResults[i][1] = k

\* sorted follows the script's comparator, equal totals in insertion order
OrderedByTotals ==
    \A i, j \in 1..Len(sorted) :
        i < j =>
            LET ti == TotalSalesOf(script, sorted[i][2])
                tj == TotalSalesOf(script, sorted[j][2])
            IN  /\ IF script = "low" THEN ti <= tj ELSE ti >= tj
                /\ ti = tj => InsertionRank(sorted[i][1]) < InsertionRank(sorted[j][1])

ByTotals == script \in {"top", "type", "supplier", "split", "low"}

\* C5 (as amended): the ranked sequence holds, without repetition, groups the
\* script ranks (all reduced groups; for low-selling products the groups
\* below the threshold), all of them unless top-N cuts it to its first n,
\* ordered by the script's comparator with equal totals in the order in which
\* their keys were first inserted during the map phase.
C5_RankingStable ==
    (Ranked /\ ByTotals) =>
        /\ Len(sorted) = RankLimit
        /\ Cardinality(KeySet(sorted)) = Len(sorted)
        /\ \A i \in 1..Len(sorted) :
              \E j \in 1..Len(RankedInput) : sorted[i] = RankedInput[j]
        /\ OrderedByTotals

C5_Witness ==
    /\ Ranked
    /\ script = "type"
    /\ MapKeys(mapResults) = <<Wine, Beer, Kegs>>
    /\ MapKeys(sorted) = <<Kegs, Wine, Beer>>
    /\ sorted[2][2].totalSales = sorted[3][2].totalSales

\* C5 (as stated): the ranked sequence is a permutation of the reduced groups,
\* ordered by the comparator, equal totals in first-insertion order.
C5_Original ==
    (Ranked /\ ByTotals) =>
        /\ Len(sorted) = Len(reducedResults)
        /\ KeySet(sorted) = KeySet(reducedResults)
        /\ OrderedByTotals

\* C6: the top-products report has one row per top-N item code showing that
\* item's reduced totalSales with two decimals; two A001 rows of 50 and 25
\* give a row A001 with 75.00.
C6_TopReportShowsTotals ==
    (Printed /\ script = "top") =>
        /\ error = "none"
        /\ Len(report.rows) = Len(sorted)
        /\ \A i \in 1..Len(sorted) :
              /\ report.rows[i].itemCode = sorted[i][1]
              /\ sorted[i][2].totalSales = 75 =>
                    report.rows[i].formattedSales
                        = <<"$", "7", "5", ".", "0", "0">>

(***************************************************************************)
(* Reading printed numbers back.                                           *)
(***************************************************************************)
\* the digits of a printed number, sign, '.', '$' and '%' left out
RECURSIVE DigitsOnly(_)
DigitsOnly(text) ==
    IF text = <<>> THEN <<>>
    ELSE (IF IsDigit(Head(text)) THEN <<Head(text)>> ELSE <<>>)
            \o DigitsOnly(Tail(text))

PlaceValue(ds) ==
    LET n == Len(ds)
        term[i \in 0..n] ==
            IF i = 0 THEN 0 ELSE 10 * term[i - 1] + DigitVal(ds[i])
    IN  term[n]

\* text prints |num / den| to one decimal, rounded to the nearest tenth
NearestTenth(text, num, den) ==
    LET tenths == PlaceValue(DigitsOnly(text))
    IN  /\ Len(text) >= 3
        /\ text[Len(text) - 1] = "."
        /\ 2 * Abs(tenths * Abs(den) - 10 * Abs(num)) <= Abs(den)

YearOf(monthKey) == PlaceValue(SubSeq(monthKey, 1, 4))
MonthOf(monthKey) == PlaceValue(SubSeq(monthKey, 6, Len(monthKey)))

\* C7: the monthly report lists every month group once, in ascending
\* chronological order; the first month's growth is N/A and a later month's
\* growth is (its total - the previous month's total) / the previous month's
\* total * 100 to one decimal, with '+' in front when it is not negative
\* (100 then 150 gives +50.0%).
C7_MonthlyOrderAndGrowth ==
    (Printed /\ script = "monthly") =>
        /\ Len(report.rows) = Len(reducedResults)
        /\ {report.rows[i].monthKey : i \in 1..Len(report.rows)}
              = KeySet(reducedResults)
        /\ \A i \in 1..Len(report.rows) :
              LET row == report.rows[i]
                  total == MapGet(reducedResults, row.monthKey).totalSales
              IN  IF i = 1 THEN row.growthStr = <<"N", "/", "A">>
                  ELSE LET before == report.rows[i - 1].monthKey
                           previous == MapGet(reducedResults, before).totalSales
                           g == row.growthStr
                       IN  /\ YearOf(before) * 12 + MonthOf(before)
                                < YearOf(row.monthKey) * 12 + MonthOf(row.monthKey)
                           /\ g[Len(g)] = "%"
                           /\ (Head(g) = "+") <=> (total >= previous)
                           /\ (Head(g) = "-") <=> (total < previous)
                           /\ NearestTenth(SubSeq(g, 1, Len(g) - 1),
                                           (total - previous) * 100, previous)
                           /\ (previous = 100 /\ total = 150) =>
                                 g = <<"+", "5", "0", ".", "0", "%">>

C7_Witness ==
    /\ Printed
    /\ script = "monthly"
    /\ MapKeys(mapResults) = <<Y2021 \o <<"-", "1", "0">>, Y2021 \o <<"-", "0", "2">>,
                               Y2021 \o <<"-", "0", "1">>>>
    /\ Len(report.rows) = 3
    /\ report.rows[1].monthKey = Y2021 \o <<"-", "0", "1">>
    /\ report.rows[2].monthKey = Y2021 \o <<"-", "0", "2">>
    /\ report.rows[1].growthStr = <<"N", "/", "A">>
    /\ report.rows[1].formattedSales = PadEnd(<<"$", "1", "0", "0", ".", "0", "0">>, 14)
    /\ report.rows[2].growthStr = <<"+", "5", "0", ".", "0", "%">>
    /\ report.rows[3].growthStr = <<"-", "3", "3", ".", "3", "%">>

(***************************************************************************)
(* Channel split, zero sales, market shares.                               *)
(***************************************************************************)
ChannelTotal(channel) == Sum(MapGet(mapResults, channel))

ShareOf(rows, k) == (CHOOSE i \in 1..Len(rows) : rows[i].key = k)

\* C8: when both channels have sales, retail dominance is reported YES
\* exactly when retail's total (hence its share) is strictly greater than
\* warehouse's, NO otherwise, and every share is printed to one decimal;
\* retail 300 and warehouse 700 print 30.0% and 70.0% with dominance NO.
C8_SplitSharesAndDominance ==
    (Printed /\ script = "split"
        /\ MapHas(mapResults, "retail") /\ MapHas(mapResults, "warehouse")) =>
        LET retail == ChannelTotal("retail")
            warehouse == ChannelTotal("warehouse")
            c == report.comparative
            table == report.shares
        IN  /\ c.shown
            /\ (c.retailDominance = "YES") <=> (retail > warehouse)
            /\ (c.retailDominance = "NO") <=> (retail <= warehouse)
            /\ NearestTenth(SubSeq(c.retailShare, 1, Len(c.retailShare) - 1),
                            retail * 100, retail + warehouse)
            /\ NearestTenth(SubSeq(c.warehouseShare, 1, Len(c.warehouseShare) - 1),
                            warehouse * 100, retail + warehouse)
            /\ table[ShareOf(table, "retail")].text = c.retailShare
            /\ table[ShareOf(table, "warehouse")].text = c.warehouseShare
            /\ (retail = 300 /\ warehouse = 700) =>
                  /\ c.retailShare = <<"3", "0", ".", "0", "%">>
                  /\ c.warehouseShare = <<"7", "0", ".", "0", "%">>
                  /\ c.retailDominance = "NO"

C8_Witness ==
    /\ Printed
    /\ script = "split"
    /\ Len(records) = 1
    /\ report.comparative.shown
    /\ report.totalRevenue = 1000
    /\ report.comparative.retailShare = <<"3", "0", ".", "0", "%">>
    /\ report.comparative.warehouseShare = <<"7", "0", ".", "0", "%">>
    /\ report.comparative.retailDominance = "NO"
    /\ report.shares[1].key = "warehouse"

\* every record of item code k has RETAIL SALES=0 and WAREHOUSE SALES=0
AllZeroProduct(k) ==
    /\ \E i \in 1..Len(records) : records[i]["ITEM CODE"] = k
    /\ \A i \in 1..Len(records) :
          records[i]["ITEM CODE"] = k =>
              /\ records[i]["RETAIL SALES"] = <<"0">>
              /\ records[i]["WAREHOUSE SALES"] = <<"0">>

ItemCodes == {records[i]["ITEM CODE"] : i \in 1..Len(records)}

\* C9: with a positive threshold, a product with a non-blank item code whose
\* records all have RETAIL SALES=0 and WAREHOUSE SALES=0 has a group, is in
\* the low-selling set with totalSales 0, and is counted among the zero-sales
\* products of the report.
C9_ZeroSalesProductReported ==
    (Printed /\ script = "low" /\ threshold # NaN /\ threshold[1] > 0) =>
        \A k \in ItemCodes :
            (AllZeroProduct(k) /\ k # <<>> /\ \E i \in 1..Len(k) : k[i] # " ") =>
                /\ MapHas(mapResults, k)
                /\ MapHas(lowSellingProducts, k)
                /\ MapGet(lowSellingProducts, k).totalSales = 0
                /\ MapHas(sorted, k)
                /\ Cardinality({i \in 1..Len(report.zeroSalesProducts) :
                                    report.zeroSalesProducts[i] = k}) = 1

C9_Witness ==
    /\ Printed
    /\ script = "low"
    /\ threshold = <<100>>
    /\ Len(records) = 1
    /\ AllZeroProduct(Z1)
    /\ MapGet(lowSellingProducts, Z1).totalSales = 0
    /\ report.zeroSalesProducts = <<Z1>>

\* the sum of a sequence of quotients, as a quotient
RECURSIVE SumShares(_)
SumShares(shares) ==
    IF shares = <<>> THEN Div(0, 1)
    ELSE LET rest == SumShares(SubSeq(shares, 1, Len(shares) - 1))
             q == shares[Len(shares)].marketShare
         IN  IF Len(shares) = 1 THEN q
             ELSE IF rest.den = q.den THEN Div(rest.num + q.num, q.den)
             ELSE Div(rest.num * q.den + q.num * rest.den, rest.den * q.den)

IsHundred(q) == q.den # 0 /\ q.num = 100 * q.den

SharesReported == Printed /\ script \in {"type", "split"}

\* C10 (as amended): in the product-type and channel-split reports with at
\* least one group, total revenue is the sum of the reported groups'
\* totalSales and the groups' market shares sum to 100%.
C10_SharesSumTo100 ==
    (SharesReported /\ Len(report.shares) > 0) =>
        /\ Len(report.shares) = Len(reducedResults)
        /\ report.totalRevenue
              = FoldPlus([i \in 1..Len(reducedResults) |->
                             reducedResults[i][2].totalSales], 1, 0)
        /\ \A i \in 1..Len(report.shares) :
              LET sh == report.shares[i]
              IN  /\ MapHas(reducedResults, sh.key)
                  /\ sh.marketShare.den = report.totalRevenue
                  /\ sh.marketShare.num
                        = 100 * MapGet(reducedResults, sh.key).totalSales
        /\ IsHundred(SumShares(report.shares))

C10_Witness ==
    /\ SharesReported
    /\ script = "type"
    /\ Len(report.shares) = 2
    /\ report.totalRevenue = 150
    /\ report.shares[1].text = <<"6", "6", ".", "7", "%">>
    /\ report.shares[2].text = <<"3", "3", ".", "3", "%">>

\* C10 (as stated): the market shares of all reported groups sum to 100%.
C10_Original == SharesReported => IsHundred(SumShares(report.shares))

\* C11: when reading dataset.csv fails, the catch block of main() logs exactly
\* one error message, nothing is parsed, mapped, reduced, ranked or printed,
\* and the process ends with exit status 0.
C11_ReadFailureCaught ==
    error = "ENOENT" =>
        /\ pc = "done"
        /\ Len(stderr) = 1
        /\ exitCode = <<0>>
        /\ records = <<>>
        /\ processedRecords = 0
        /\ ~locals.called
        /\ mapResults = <<>>
        /\ reducedResults = <<>>
        /\ lowSellingProducts = <<>>
        /\ sorted = <<>>
        /\ ~report.printed

C11_Witness ==
    /\ error = "ENOENT"
    /\ pc = "done"
    /\ script \in {"monthly", "low"}
    /\ Len(dataset) > 0

\* C12: printing the report never fails: for every ranked result, the empty one
\* included, each script prints through its last section and nothing is logged
\* by the catch block.
C12_PrintingNeverFails ==
    Printed => error = "none" /\ stderr = <<>>

\* the value of a command-line argument written in decimal digits
ArgumentValue == PlaceValue(argv)

NumericArgument == argv # NoArg /\ argv # <<>> /\ DigitsOnly(argv) = argv

RankedTotals == {<<i, sorted[i][2].totalSales>> : i \in 1..Len(sorted)}

\* C13: the low-selling analysis works with threshold 100 when no argument is
\* given and with the value of the numeric argument otherwise: the filter of
\* reduce() and every tier of the report (a tenth, two tenths, six tenths of
\* the threshold and the threshold itself) are taken from that number.
C13_ThresholdFromArgument ==
    (script = "low" /\ pc # "read" /\ error # "ENOENT"
        /\ (argv = NoArg \/ NumericArgument)) =>
        LET t == IF argv = NoArg THEN 100 ELSE ArgumentValue
        IN  /\ threshold = <<t>>
            /\ Reduced =>
                  KeySet(lowSellingProducts) =
                      {reducedResults[i][1] : i \in
                          {j \in 1..Len(reducedResults) :
                              reducedResults[j][2].totalSales < t}}
            /\ Printed =>
                  /\ PlaceValue(report.heading) = t
                  /\ PlaceValue(report.tiers.lowBound) = t
                  /\ report.tiers.veryLowSales =
                        Cardinality({p \in RankedTotals :
                                        p[2] > 0 /\ 10 * p[2] < t})
                  /\ report.tiers.lowButNotZero =
                        Cardinality({p \in RankedTotals :
                                        10 * p[2] >= t /\ p[2] < t})
                  /\ report.tiers.high =
                        Cardinality({p \in RankedTotals :
                                        p[2] > 0 /\ 10 * p[2] < 2 * t})
                  /\ report.tiers.medium =
                        Cardinality({p \in RankedTotals :
                                        10 * p[2] >= 2 * t /\ 10 * p[2] < 6 * t})
                  /\ report.tiers.low =
                        Cardinality({p \in RankedTotals : 10 * p[2] >= 6 * t})
                  /\ 2 * Abs(10 * PlaceValue(report.tiers.veryLowBound) - t) <= 10
                  /\ 2 * Abs(10 * PlaceValue(report.tiers.highBound) - 2 * t) <= 10
                  /\ 2 * Abs(10 * PlaceValue(report.tiers.mediumBound) - 6 * t) <= 10

C13_Witness ==
    /\ Printed
    /\ script = "low"
    /\ NumericArgument
    /\ ArgumentValue = 50
    /\ Len(reducedResults) = 2
    /\ Len(lowSellingProducts) = 1
    /\ report.tiers.high = 1
    /\ report.tiers.veryLowSales = 0

\* the places of a separator in a text, and the n-th piece between them
Places(s, sep) == {k \in 1..Len(s) : s[k] = sep}

NthPlace(s, sep, n) ==
    CHOOSE k \in Places(s, sep) :
        Cardinality({j \in Places(s, sep) : j <= k}) = n

PieceCount(s, sep) == Cardinality(Places(s, sep)) + 1

Piece(s, sep, n) ==
    LET from == IF n = 1 THEN 1 ELSE NthPlace(s, sep, n - 1) + 1
        to == IF n < PieceCount(s, sep) THEN NthPlace(s, sep, n) - 1 ELSE Len(s)
    IN  SubSeq(s, from, to)

\* the lines of a file: a newline at the end of the text ends the last line
FileLineCount(c) ==
    IF c = <<>> THEN 0
    ELSE IF c[Len(c)] = "\n" THEN PieceCount(c, "\n") - 1
    ELSE PieceCount(c, "\n")

\* the text without the white space before its first and after its last mark
Stripped(c) ==
    LET marks == {k \in 1..Len(c) : c[k] \notin {" ", "\n"}}
    IN  IF marks = {} THEN <<>>
        ELSE SubSeq(c, CHOOSE k \in marks : \A j \in marks : k <= j,
                       CHOOSE k \in marks : \A j \in marks : j <= k)

\* parsedRecords holds one record per line of c after the first, in order, and
\* each record gives every header name (every one, or only its last place in
\* the header line) the value at the same place of its line, '' when the line
\* is shorter, and has no other field
RecordsFollowLines(c, lastPlaceOnly) ==
    /\ Len(parsedRecords) = IF FileLineCount(c) = 0 THEN 0 ELSE FileLineCount(c) - 1
    /\ \A r \in 1..Len(parsedRecords) :
          LET header == Piece(c, "\n", 1)
              row == Piece(c, "\n", r + 1)
              names == 1..PieceCount(header, ",")
          IN  /\ KeySet(parsedRecords[r]) = {Piece(header, ",", n) : n \in names}
              /\ \A n \in names :
                    (lastPlaceOnly =>
                        \A later \in names :
                            later > n => Piece(header, ",", later) # Piece(header, ",", n))
                    => MapGet(parsedRecords[r], Piece(header, ",", n)) =
                          IF n <= PieceCount(row, ",") THEN Piece(row, ",", n)
                          ELSE <<>>

\* C14: parseCSV returns one record per line after the first line of the
\* content without its leading and trailing white space, in file order; every
\* header name is mapped to the value at the place of its last occurrence in
\* the header line, to '' when the row is shorter, and values beyond the
\* header's length are in no field.
C14_ParseCSVRecords ==
    parsePc = "returned" => RecordsFollowLines(Stripped(csvContent), TRUE)

C14_Witness ==
    /\ parsePc = "returned"
    /\ headers = << <<"a">>, <<"b">> >>
    /\ Len(parsedRecords) = 2
    /\ csvContent[Len(csvContent)] = "\n"
    /\ MapGet(parsedRecords[1], <<"b">>) = <<"2">>
    /\ Len(Split(lines[2], ",")) = 3
    /\ MapGet(parsedRecords[2], <<"a">>) = <<"1">>
    /\ MapGet(parsedRecords[2], <<"b">>) = <<>>

\* C14 as stated: one record per line of the file after the header line, each
\* header name at place n mapped to the row's value at place n
C14_Original ==
    parsePc = "returned" => RecordsFollowLines(csvContent, FALSE)

\* C15: whatever the text of the two sales fields of a record, the normalized
\* retailSales and warehouseSales are both at least 0.
C15_NormalizedSalesNonNegative ==
    locals.called => locals.retailSales >= 0 /\ locals.warehouseSales >= 0

\* the scripts whose summaries carry transactionCount and averageSale
Averaging == script \in {"monthly", "type", "split", "low"}

\* C16: a reduced group has transactionCount 0 only in the low-selling
\* analysis, and its averageSale is then 0; the averageSale of every group is
\* a finite number.
C16_AverageSaleGuarded ==
    (Reduced /\ Averaging) =>
        \A g \in 1..Len(reducedResults) :
            LET data == reducedResults[g][2]
            IN  /\ IsFinite(data.averageSale)
                /\ data.transactionCount = 0 =>
                      /\ script = "low"
                      /\ data.averageSale.num = 0
                /\ data.transactionCount > 0 =>
                      data.averageSale = Div(data.totalSales, data.transactionCount)

C16_Witness ==
    /\ Reduced
    /\ script = "low"
    /\ \E g \in 1..Len(reducedResults) :
          /\ reducedResults[g][2].transactionCount = 0
          /\ Len(MapGet(mapResults, reducedResults[g][1]).sales) = 2
    /\ \E g \in 1..Len(reducedResults) :
          reducedResults[g][2].transactionCount > 0

\* C16 as stated: with transactionCount 0 the averageSale is the quotient
\* totalSales / 0, a non-finite value
C16_Original ==
    (Reduced /\ Averaging) =>
        \A g \in 1..Len(reducedResults) :
            reducedResults[g][2].transactionCount = 0 =>
                /\ ~IsFinite(reducedResults[g][2].averageSale)
                /\ reducedResults[g][2].averageSale =
                      Div(reducedResults[g][2].totalSales, 0)

\* the calls of a complete run over n records
RECURSIVE MapCalls(_)
MapCalls(n) == IF n = 0 THEN <<>> ELSE Append(MapCalls(n - 1), "map")

FullRun(n) ==
    <<"readFileSync", "parseCSV">> \o MapCalls(n) \o <<"reduce", "sort", "print">>

IsPrefix(a, b) == Len(a) <= Len(b) /\ a = SubSeq(b, 1, Len(a))

Called(name) == \E k \in 1..Len(calls) : calls[k] = name

\* C17: a run goes through read, parse, map, reduce, sort/filter and print in
\* this order and through none of them twice; reduce() is called only after
\* map() has been called once with every parsed record, in file order, and
\* nothing is printed from the groups before reduce() has returned.
C17_PhasesInOrder ==
    /\ IF Called("parseCSV") THEN IsPrefix(calls, FullRun(Len(records)))
       ELSE calls \in {<<>>, <<"readFileSync">>}
    /\ mapped = [k \in 1..Len(mapped) |-> k]
    /\ Len(mapped) <= Len(records)
    /\ Called("reduce") => Len(mapped) = Len(records)
    /\ ~Called("reduce") => reducedResults = <<>> /\ lowSellingProducts = <<>>
    /\ ~Called("sort") => sorted = <<>>
    /\ report.printed => Called("reduce") /\ Called("sort") /\ Called("print")
    /\ pc = "done" /\ error # "ENOENT" => calls = FullRun(Len(records))

C17_Witness ==
    /\ pc = "done"
    /\ script \in {"monthly", "supplier"}
    /\ Len(records) = 3
    /\ records[1] # records[2]
    /\ mapped = <<1, 2, 3>>
    /\ report.printed
    /\ Len(sorted) = 2

\* a text with a character other than a space
HasInk(text) == \E k \in 1..Len(text) : text[k] # " "

\* the inclusion predicate of each analysis, for a record of total t
Included(record, t) ==
    CASE script = "monthly" ->
            t > 0 /\ record["YEAR"] # <<>> /\ record["MONTH"] # <<>>
      [] script = "type" -> t > 0 /\ HasInk(record["ITEM TYPE"])
      [] script = "supplier" -> t > 0 /\ HasInk(record["SUPPLIER"])
      [] script = "top" -> t > 0
      [] script = "low" -> HasInk(record["ITEM CODE"])

\* the field a group is keyed by (the month key is made of two fields)
KeyField ==
    CASE script = "type" -> "ITEM TYPE"
      [] script = "supplier" -> "SUPPLIER"
      [] script \in {"top", "low"} -> "ITEM CODE"

\* after has, in group k, the contributions of before and t behind them, and
\* is before everywhere else
OneValueAppended(before, after, k, t) ==
    /\ k \in 1..Len(after)
    /\ Len(after) = IF k <= Len(before) THEN Len(before) ELSE Len(before) + 1
    /\ \A j \in 1..Len(before) : j # k => after[j] = before[j]
    /\ k <= Len(before) => after[k][1] = before[k][1]
    /\ k > Len(before) => \A j \in 1..Len(before) : before[j][1] # after[k][1]
    /\ SalesOf(script, after[k][2]) =
          Append(IF k <= Len(before) THEN SalesOf(script, before[k][2]) ELSE <<>>, t)

\* C18: a call of map() leaves the group map as it was when the record fails
\* the inclusion predicate of the analysis, and otherwise appends the record's
\* total to exactly one group, the one of the record's key, leaving every
\* other group as it was.
C18_MapFrameEffect ==
    [][(processedRecords' = processedRecords + 1 /\ script # "split") =>
          LET record == records[processedRecords + 1]
              t == locals'.totalSales
          IN  IF Included(record, t)
              THEN \E k \in 1..Len(mapResults') :
                      /\ OneValueAppended(mapResults, mapResults', k, t)
                      /\ script # "monthly" =>
                            mapResults'[k][1] = record[KeyField]
              ELSE mapResults' = mapResults]_vars

C18_Witness ==
    /\ script = "low"
    /\ pc = "map"
    /\ processedRecords = 3
    /\ ~HasInk(records[2]["ITEM CODE"])
    /\ locals.totalSales = 0
    /\ Len(mapResults) = 1
    /\ Len(SalesOf(script, mapResults[1][2])) = 2

\* the contributions accumulated for the group of reducedResults at place g
ContributionsOf(g) == SalesOf(script, MapGet(mapResults, reducedResults[g][1]))

\* C19: in the monthly, product-type and channel-split analyses the
\* transactionCount of a group is the number of its contributions; in the
\* low-selling analysis it is the number of strictly positive ones, while
\* totalSales is the sum of all of them.
C19_TransactionCountPolicy ==
    (Reduced /\ Averaging) =>
        \A g \in 1..Len(reducedResults) :
            LET sales == ContributionsOf(g)
                data == reducedResults[g][2]
            IN  /\ script # "low" => data.transactionCount = Len(sales)
                /\ script = "low" =>
                      /\ data.transactionCount =
                            Cardinality({k \in 1..Len(sales) : sales[k] > 0})
                      /\ data.transactionCount <= Len(sales)
                      /\ data.totalSales = FoldPlus(sales, 1, 0)

C19_Witness ==
    /\ Reduced
    /\ script = "low"
    /\ \E g \in 1..Len(reducedResults) :
          /\ Len(ContributionsOf(g)) = 3
          /\ reducedResults[g][2].transactionCount = 2
          /\ reducedResults[g][2].totalSales = 45

\* the scripts whose groups carry metadata, and the fields they carry
WithMetadata == script \in {"top", "low"}

MetadataFields ==
    IF script = "low"
    THEN {<<"description", "ITEM DESCRIPTION">>, <<"itemType", "ITEM TYPE">>,
          <<"supplier", "SUPPLIER">>}
    ELSE {<<"description", "ITEM DESCRIPTION">>}

\* the records handed to map() so far that went into the group of key
Contributors(key) ==
    {k \in 1..processedRecords :
        /\ records[k]["ITEM CODE"] = key
        /\ Included(records[k], Normalize(records[k]).totalSales)}

FirstContributor(key) ==
    records[CHOOSE k \in Contributors(key) : \A j \in Contributors(key) : k <= j]

MetadataFromFirst(groups) ==
    \A g \in 1..Len(groups) :
        \A f \in MetadataFields :
            groups[g][2][f[1]] = FirstContributor(groups[g][1])[f[2]]

\* C20: at every moment of the map phase and in the reduced summary, the
\* metadata of a group (description; in the low-selling analysis item type and
\* supplier too) is that of the first record that went into the group, whatever
\* the later records of the key carry.
C20_MetadataFromFirstRecord ==
    (WithMetadata /\ pc # "read" /\ error # "ENOENT") =>
        /\ MetadataFromFirst(mapResults)
        /\ Reduced => MetadataFromFirst(reducedResults)
        /\ Ranked => MetadataFromFirst(sorted)

C20_Witness ==
    /\ Reduced
    /\ script = "low"
    /\ Len(records) = 3
    /\ Len(reducedResults) = 1
    /\ records[1]["ITEM DESCRIPTION"] = Desc
    /\ records[2]["ITEM DESCRIPTION"] = Other
    /\ records[3]["SUPPLIER"] = Bolt
    /\ reducedResults[1][2].description = Desc
    /\ reducedResults[1][2].itemType = Wine
    /\ reducedResults[1][2].supplier = Acme

\* the analyses that keep only positive sales
PositiveOnly == script \in {"monthly", "type", "supplier", "top", "split"}

\* a printed number: digits with a sign, a point or a percent sign
IsNumeral(text) ==
    /\ text # <<>>
    /\ \A k \in 1..Len(text) : IsDigit(text[k]) \/ text[k] \in {"+", "-", ".", "%"}

\* C21: in the monthly, product-type, supplier, top-products and channel-split
\* analyses every group of the map phase holds at least one contribution and
\* only strictly positive ones; every reduced group has totalSales > 0 and,
\* where it is kept, transactionCount >= 1 and a finite averageSale; the
\* monthly growth is never a quotient by zero.
C21_GroupsPositive ==
    (PositiveOnly /\ pc # "read" /\ error # "ENOENT") =>
        /\ \A g \in 1..Len(mapResults) :
              LET sales == SalesOf(script, mapResults[g][2])
              IN  /\ Len(sales) >= 1
                  /\ \A k \in 1..Len(sales) : sales[k] > 0
        /\ Reduced =>
              \A g \in 1..Len(reducedResults) :
                  /\ TotalSalesOf(script, reducedResults[g][2]) > 0
                  /\ Averaging =>
                        /\ reducedResults[g][2].transactionCount >= 1
                        /\ reducedResults[g][2].averageSale.den > 0
        /\ (Printed /\ script = "monthly") =>
              \A r \in 1..Len(report.rows) :
                  /\ r > 1 => sorted[r - 1][2].totalSales > 0
                  /\ r > 1 => IsNumeral(report.rows[r].growthStr)
                  /\ IsNumeral(Tail(TrimEnd(report.rows[r].formattedAvgSale)))

C21_Witness ==
    /\ script = "split"
    /\ Reduced
    /\ Len(records) = 3
    /\ records[1]["RETAIL SALES"] = <<"0">>
    /\ records[1]["WAREHOUSE SALES"] = <<"n", "a">>
    /\ records[2]["RETAIL SALES"] = <<"0">>
    /\ Len(reducedResults) = 2
    /\ \E g \in 1..2 : reducedResults[g][2].transactionCount = 1

\* C22: in the low-selling report every product of the low-selling set is
\* counted in exactly one of the four urgency tiers, so the counts of URGENT,
\* HIGH, MEDIUM and LOW sum to the number of low-selling products.
C22_TiersCoverLowSelling ==
    (Printed /\ script = "low") =>
        report.tiers.urgent + report.tiers.high + report.tiers.medium
            + report.tiers.low = Len(sorted)

\* the contributions the records make, in file order: the record's total when
\* the record is included (monthly, product type), one value per positive
\* channel (channel split)
ContributionsOfRecord(record) ==
    LET n == Normalize(record)
    IN  IF script = "split"
        THEN (IF n.retailSales > 0 THEN <<n.retailSales>> ELSE <<>>)
                 \o (IF n.warehouseSales > 0 THEN <<n.warehouseSales>> ELSE <<>>)
        ELSE IF Included(record, n.totalSales) THEN <<n.totalSales>> ELSE <<>>

RECURSIVE AllContributions(_)
AllContributions(k) ==
    IF k = 0 THEN <<>>
    ELSE AllContributions(k - 1) \o ContributionsOfRecord(records[k])

\* C23: in the monthly, product-type and channel-split analyses the total
\* transaction count of the report is the number of contributions that passed
\* inclusion (one per included record; in the split one per positive channel
\* of a record), and the total revenue is the sum of those contributions.
C23_TotalsMatchContributions ==
    (Printed /\ script \in {"monthly", "type", "split"}) =>
        LET passed == AllContributions(Len(records))
        IN  /\ report.totalTransactions = Len(passed)
            /\ report.totalRevenue = FoldPlus(passed, 1, 0)

C23_Witness ==
    /\ script = "split"
    /\ Printed
    /\ Len(records) = 3
    /\ Normalize(records[1]).retailSales > 0
    /\ Normalize(records[1]).warehouseSales > 0
    /\ Normalize(records[2]).retailSales = 0
    /\ Normalize(records[2]).warehouseSales > 0
    /\ Normalize(records[3]).totalSales = 0
    /\ report.totalTransactions = 3

\* the season of a month number
SeasonByNumber(n) ==
    CASE n \in 3..5 -> "Spring"
      [] n \in 6..8 -> "Summer"
      [] n \in 9..11 -> "Fall"
      [] OTHER -> "Winter"

\* the month groups of the ranking whose month number lies in the season
MonthsIn(season) ==
    {i \in 1..Len(sorted) : SeasonByNumber(MonthOf(sorted[i][1])) = season}

RECURSIVE SumOver(_)
SumOver(S) ==
    IF S = {} THEN 0
    ELSE LET i == CHOOSE x \in S : TRUE
         IN  sorted[i][2].totalSales + SumOver(S \ {i})

SeasonalPrinted ==
    /\ Printed
    /\ script = "monthly"
    /\ \E k \in 1..Len(report.sections) : report.sections[k] = "seasonal"

====
